---- MODULE Spec2Model ----
(***************************************************************************)
(* Model of src/run.py: the MainWindow of the FSL first-level analysis GUI. *)
(* Text is modelled as sequences of one-character strings, so that split,   *)
(* strip, float and the substring tests act on characters as the code does. *)
(***************************************************************************)
EXTENDS Integers, Sequences, FiniteSets, TLC

VARIABLES
    bids_dir,        \* self.bids_dir: a path (sequence of components), <<>> is ""
    output_dir,      \* self.output_dir
    layout,          \* self.layout: NoLayout (None) or [root |-> path]
    lbl_bids,        \* self.lbl_bids text
    lbl_output,      \* self.lbl_output text
    txt_tasks,       \* self.txt_tasks text
    txt_session,     \* self.txt_session text
    txt_contrasts,   \* self.txt_contrasts plain text
    combo_items,     \* self.combo_confounds items
    combo_index,     \* self.combo_confounds current index, 1-based, 0 = none
    combo_enabled,   \* self.combo_confounds enabled flag
    status,          \* self.status: the lines of the log
    pc,              \* position of the UI thread: "idle" or a point in a handler
    frame,           \* local variables and effects of the running handler
    dialogs,         \* number of warning boxes shown
    disk,            \* PNG files present under the output folders
    alive,           \* FALSE once an exception left a handler (Qt aborts)
    clicks,          \* number of button clicks so far
    typed            \* what the user typed into the task and contrast fields

vars == << bids_dir, output_dir, layout, lbl_bids, lbl_output, txt_tasks,
           txt_session, txt_contrasts, combo_items, combo_index, combo_enabled,
           status, pc, frame, dialogs, disk, alive, clicks, typed >>

-----------------------------------------------------------------------------
(* Bounds of the exploration. *)

MaxClicks == 4
MaxMaps == 2
MaxLines == 3
MaxPairs == 2

-----------------------------------------------------------------------------
(* Python str operations on character sequences. *)

Whitespace == {" ", "\t", "\n", "\r"}

RECURSIVE IndexFrom(_, _, _)
IndexFrom(s, c, i) ==
    IF i > Len(s) THEN 0
    ELSE IF s[i] = c THEN i
    ELSE IndexFrom(s, c, i + 1)

\* str.find(c) + 1: the first position of character c in s, 0 when absent
IndexOf(s, c) == IndexFrom(s, c, 1)

\* s[i:] in 1-based positions
Tail_(s, i) == SubSeq(s, i, Len(s))

RECURSIVE Split(_, _)
\* s.split(c) for a one-character separator
Split(s, c) ==
    LET i == IndexOf(s, c)
    IN  IF i = 0 THEN << s >>
        ELSE << SubSeq(s, 1, i - 1) >> \o Split(Tail_(s, i + 1), c)

\* s.split(c, 1)
Split1(s, c) ==
    LET i == IndexOf(s, c)
    IN  IF i = 0 THEN << s >>
        ELSE << SubSeq(s, 1, i - 1), Tail_(s, i + 1) >>

RECURSIVE LStrip(_)
LStrip(s) ==
    IF s # << >> /\ Head(s) \in Whitespace THEN LStrip(Tail(s)) ELSE s

RECURSIVE RStrip(_)
RStrip(s) ==
    IF s # << >> /\ s[Len(s)] \in Whitespace
    THEN RStrip(SubSeq(s, 1, Len(s) - 1))
    ELSE s

\* s.strip()
Strip(s) == RStrip(LStrip(s))

\* "needle in hay" for str operands
Contains(hay, needle) ==
    \E i \in 0..(Len(hay) - Len(needle)) :
        SubSeq(hay, i + 1, i + Len(needle)) = needle

RECURSIVE Join(_, _)
\* sep.join(parts)
Join(parts, sep) ==
    IF parts = << >> THEN << >>
    ELSE IF Len(parts) = 1 THEN parts[1]
    ELSE parts[1] \o sep \o Join(Tail(parts), sep)

-----------------------------------------------------------------------------
(* float(): a decimal numeral to a number.  A number is [m, e] standing for *)
(* m / 10^e, normalised so that equal numbers are equal records (1.0 = 1).  *)
(* Exponent notation, inf, nan and underscores raise here: the inputs of    *)
(* the model never use them.                                                *)

Digits == {"0", "1", "2", "3", "4", "5", "6", "7", "8", "9"}

DigitVal(c) ==
    CASE c = "0" -> 0 [] c = "1" -> 1 [] c = "2" -> 2 [] c = "3" -> 3
      [] c = "4" -> 4 [] c = "5" -> 5 [] c = "6" -> 6 [] c = "7" -> 7
      [] c = "8" -> 8 [] c = "9" -> 9

RECURSIVE DigitsVal(_, _)
DigitsVal(s, acc) ==
    IF s = << >> THEN acc ELSE DigitsVal(Tail(s), 10 * acc + DigitVal(Head(s)))

RECURSIVE Normal(_, _)
Normal(m, e) ==
    IF m = 0 THEN [m |-> 0, e |-> 0]
    ELSE IF e > 0 /\ m % 10 = 0 THEN Normal(m \div 10, e - 1)
    ELSE [m |-> m, e |-> e]

Num(m, e) == Normal(m, e)

AllDigits(s) == \A i \in 1..Len(s) : s[i] \in Digits

NoValue == [m |-> 0, e |-> 0]

\* float(s): [ok |-> the numeral is accepted, val |-> its value]
ParseFloat(s) ==
    LET t    == Strip(s)
        neg  == t # << >> /\ Head(t) = "-"
        sgn  == t # << >> /\ Head(t) \in {"-", "+"}
        u    == IF sgn THEN Tail(t) ELSE t
        dot  == IndexOf(u, ".")
        ip   == IF dot = 0 THEN u ELSE SubSeq(u, 1, dot - 1)
        fp   == IF dot = 0 THEN << >> ELSE Tail_(u, dot + 1)
        good == AllDigits(ip) /\ AllDigits(fp) /\ Len(ip) + Len(fp) > 0
        mag  == DigitsVal(ip \o fp, 0)
    IN  IF good
        THEN [ok |-> TRUE, val |-> Num(IF neg THEN 0 - mag ELSE mag, Len(fp))]
        ELSE [ok |-> FALSE, val |-> NoValue]

-----------------------------------------------------------------------------
(* Exceptions: the type and the variable part of str(e); the fixed parts of *)
(* the messages used here contain neither "bold" nor "events".              *)

NoExc == [type |-> "none", text |-> << >>]
Exc(type, text) == [type |-> type, text |-> text]

sBold == << "b", "o", "l", "d" >>
sEvents == << "e", "v", "e", "n", "t", "s" >>

-----------------------------------------------------------------------------
(* An insertion-ordered dict as a sequence of [k, v]. *)

RECURSIVE DictSet(_, _, _)
\* d[k] = v: a present key keeps its place and takes the new value
DictSet(d, k, v) ==
    IF d = << >> THEN << [k |-> k, v |-> v] >>
    ELSE IF Head(d).k = k THEN << [k |-> k, v |-> v] >> \o Tail(d)
    ELSE << Head(d) >> \o DictSet(Tail(d), k, v)

DictKeys(d) == [i \in 1..Len(d) |-> d[i].k]
DictValues(d) == [i \in 1..Len(d) |-> d[i].v]

-----------------------------------------------------------------------------
(* parse_contrasts *)

Raised(e) == [raised |-> TRUE, value |-> << >>, exc |-> e]
Returned(v) == [raised |-> FALSE, value |-> v, exc |-> NoExc]

RECURSIVE ParsePairs(_, _)
\* the loop over spec.split(","): the dict built, or the exception raised
ParsePairs(pairs, weights) ==
    IF pairs = << >> THEN Returned(weights)
    ELSE LET tw == Split(Head(pairs), "=")
         IN  IF Len(tw) # 2
             THEN Raised(Exc("ValueError", << >>))
             ELSE LET f == ParseFloat(Strip(tw[2]))
                  IN  IF ~f.ok
                      THEN Raised(Exc("ValueError", Strip(tw[2])))
                      ELSE ParsePairs(Tail(pairs),
                                      DictSet(weights, Strip(tw[1]), f.val))

\* ParseLine with the name taken as split off, not trimmed
ParseLine_NameUntrimmed(line) ==
    LET ns == Split1(line, ":")
    IN  IF Len(ns) # 2
        THEN Raised(Exc("ValueError", << >>))
        ELSE LET w == ParsePairs(Split(ns[2], ","), << >>)
             IN  IF w.raised THEN w
                 ELSE Returned([name |-> ns[1], kind |-> "T",
                                conds |-> DictKeys(w.value),
                                weights |-> DictValues(w.value)])

\* one non-blank line: the contrast record, or the exception raised
ParseLine(line) ==
    LET ns == Split1(line, ":")
    IN  IF Len(ns) # 2
        THEN Raised(Exc("ValueError", << >>))
        ELSE LET w == ParsePairs(Split(ns[2], ","), << >>)
             IN  IF w.raised THEN w
                 ELSE Returned([name |-> Strip(ns[1]), kind |-> "T",
                                conds |-> DictKeys(w.value),
                                weights |-> DictValues(w.value)])

RECURSIVE ParseLines(_, _)
ParseLines(lines, contrasts) ==
    IF lines = << >> THEN Returned(contrasts)
    ELSE IF Strip(Head(lines)) = << >>
    THEN ParseLines(Tail(lines), contrasts)
    ELSE LET r == ParseLine(Head(lines))
         IN  IF r.raised THEN r
             ELSE ParseLines(Tail(lines), Append(contrasts, r.value))

parse_contrasts(text) == ParseLines(Split(text, "\n"), << >>)

-----------------------------------------------------------------------------
(* Literals of the source. *)

sFinger == << "F", "i", "n", "g", "e", "r" >>
sFoot == << "F", "o", "o", "t" >>
sLips == << "L", "i", "p", "s" >>
sTest == << "t", "e", "s", "t" >>
sFingerVsRest ==
    << "F", "i", "n", "g", "e", "r", " ", "v", "s", ".", " ", "R", "e", "s", "t" >>
sAllMotor == << "A", "l", "l", " ", "M", "o", "t", "o", "r" >>
sStep2 == << "S", "t", "e", "p", " ", "2" >>
sStep3 == << "S", "t", "e", "p", " ", "3" >>
sStep4 == << "S", "t", "e", "p", " ", "4" >>

-----------------------------------------------------------------------------
(* What the user types.  A token is the characters typed and the value they *)
(* stand for; a typed line keeps both, and the field holds the characters.  *)

Tok(text, val) == [text |-> text, val |-> val]
Pair(c, w) == [c |-> c, w |-> w]

\* the characters of a contrast line 'Name: c1=w1, ..., ck=wk'
ContrastText(nameTok, pairs) ==
    nameTok.text \o << ":" >> \o
    Join([i \in 1..Len(pairs) |-> pairs[i].c.text \o << "=" >> \o pairs[i].w.text],
         << "," >>)

ContrastLine(nameTok, pairs) ==
    [kind |-> "contrast", text |-> ContrastText(nameTok, pairs),
     name |-> nameTok.val,
     conds |-> [i \in 1..Len(pairs) |-> pairs[i].c.val],
     weights |-> [i \in 1..Len(pairs) |-> pairs[i].w.val]]

BlankLine(text) ==
    [kind |-> "blank", text |-> text, name |-> << >>, conds |-> << >>,
     weights |-> << >>]

\* a line that is not of the form 'Name: c1=w1, ...'
RawLine(text) ==
    [kind |-> "raw", text |-> text, name |-> << >>, conds |-> << >>,
     weights |-> << >>]

\* toPlainText() of the contrast field after the lines were typed
FieldText(lines) == Join([i \in 1..Len(lines) |-> lines[i].text], << "\n" >>)

\* text() of the task field after the task tokens were typed
TaskText(toks) == Join([i \in 1..Len(toks) |-> toks[i].text], << "," >>)

One == [m |-> 1, e |-> 0]
MinusOne == [m |-> 0 - 1, e |-> 0]
MinusHalf == [m |-> 0 - 5, e |-> 1]

wOne == Tok(<< "1" >>, One)

\* the initial texts of the form (lines 41, 46 and 51 of the source)
DefaultTasks ==
    << Tok(sFinger, sFinger), Tok(<< " " >> \o sFoot, sFoot),
       Tok(<< " " >> \o sLips, sLips) >>

DefaultContrasts ==
    << ContrastLine(Tok(sFingerVsRest, sFingerVsRest),
                    << Pair(Tok(<< " " >> \o sFinger, sFinger), wOne) >>),
       ContrastLine(Tok(sAllMotor, sAllMotor),
                    << Pair(Tok(<< " " >> \o sFinger, sFinger), wOne),
                       Pair(Tok(<< " " >> \o sFoot, sFoot), wOne),
                       Pair(Tok(<< " " >> \o sLips, sLips), wOne) >>) >>

\* tokens typed when parse_contrasts is explored on its own
NameToks == { Tok(<< "A" >>, << "A" >>),
              Tok(<< " ", "B", " ", "c", " " >>, << "B", " ", "c" >>) }
CondToks == { Tok(<< "X" >>, << "X" >>), Tok(<< " ", "Y", " " >>, << "Y" >>),
              Tok(<< " ", "X" >>, << "X" >>) }
WeightToks == { Tok(<< "1", ".", "0" >>, One), Tok(<< " ", "-", "0", ".", "5", " " >>, MinusHalf) }
BlankTexts == { << >>, << " ", "\t" >> }

\* texts typed in the window: the tasks and the contrasts
TaskPresets ==
    { DefaultTasks,
      << Tok(<< " " >> \o sLips, sLips) >>,
      << Tok(sFinger \o << " " >>, sFinger), Tok(<< " ", " " >> \o sFoot, sFoot),
         Tok(sFinger, sFinger) >> }

ContrastPresets ==
    { DefaultContrasts,
      << RawLine(<< "A" >>) >>,
      << ContrastLine(Tok(<< "A" >>, << "A" >>),
                      << Pair(Tok(sFoot, sFoot), Tok(<< "-", "1" >>, MinusOne)),
                         Pair(Tok(sFinger \o << " " >>, sFinger), wOne) >>),
         BlankLine(<< " " >>),
         RawLine(<< "B", ":", "X", "=" >> \o sBold) >> }

PairsTyped(lines) ==
    LET RECURSIVE Sum(_)
        Sum(i) == IF i = 0 THEN 0 ELSE Len(lines[i].conds) + Sum(i - 1)
    IN  Sum(Len(lines))

-----------------------------------------------------------------------------
(* The state of the window. *)

NoLayout == [root |-> << >>]
NoFolderSelected == "No folder selected"
Unbound == << "<unbound>" >>

NoTable == [columns |-> << >>, rows |-> << >>]

EmptyFrame ==
    [handler |-> "none", outcome |-> "none",
     tasks |-> << >>, session |-> << >>, contrasts |-> << >>,
     confound_cols |-> << >>,
     bold_file |-> Unbound, mask_file |-> Unbound, events_file |-> Unbound,
     confounds_file |-> Unbound,
     events |-> NoTable, confounds |-> NoTable,
     info |-> << >>, wf |-> << >>, results |-> << >>, i |-> 0,
     written |-> << >>, exc |-> NoExc, trace |-> << >>, mark |-> 0]

Line(kind) == [kind |-> kind, step |-> "", exc |-> NoExc, file |-> << >>]
ErrLine(step, e, file) == [kind |-> "Error", step |-> step, exc |-> e, file |-> file]

\* self.log(message)
log(st, line) == Append(st, line)

Init ==
    /\ bids_dir = << >>
    /\ output_dir = << >>
    /\ layout = NoLayout
    /\ lbl_bids = NoFolderSelected
    /\ lbl_output = NoFolderSelected
    /\ txt_tasks = TaskText(DefaultTasks)
    /\ txt_session = sTest
    /\ txt_contrasts = FieldText(DefaultContrasts)
    /\ combo_items = << >>
    /\ combo_index = 0
    /\ combo_enabled = FALSE
    /\ status = << Line("Ready") >>
    /\ pc = "idle"
    /\ frame = EmptyFrame
    /\ dialogs = 0
    /\ disk = {}
    /\ alive = TRUE
    /\ clicks = 0
    /\ typed = [tasks |-> DefaultTasks, contrasts |-> DefaultContrasts]

window == << bids_dir, output_dir, layout, lbl_bids, lbl_output, combo_items,
             combo_index, combo_enabled, status, dialogs, disk >>

-----------------------------------------------------------------------------
(* The folders of the file dialog and what they hold.  A dataset is what    *)
(* BIDSLayout, layout.get and pd.read_csv find under a folder.              *)

dsGood == << "data", "ds1" >>
dsOther == << "data", "ds2" >>
dsNoConf == << "data", "noconf" >>
dsCorrupt == << "data", "corrupt" >>
dsBad == << "data", "bad" >>
BidsFolders == { dsGood, dsOther, dsNoConf, dsCorrupt, dsBad }
OutFolders == { << "out", "a" >>, << "out", "b" >> }
Cancelled == << >>

sRot == << "r", "o", "t" >>
sRotX == << "r", "o", "t", "_", "x" >>
sCsf == << "c", "s", "f" >>
sGs == << "g", "s" >>
sEventsTsv == << "e", "v", "e", "n", "t", "s", ".", "t", "s", "v" >>
sConfoundsTsv == << "c", "o", "n", "f", "o", "u", "n", "d", "s", ".", "t", "s", "v" >>

Val(v) == [nan |-> FALSE, v |-> v]
NaN == [nan |-> TRUE, v |-> 0]

Event(t, onset, duration) == [trial_type |-> t, onset |-> onset, duration |-> duration]

EventsTable ==
    [columns |-> << >>,
     rows |-> << Event(sFinger, 10, 5), Event(sFoot, 25, 4), Event(sFinger, 40, 6),
                 Event(sFoot, 55, 3) >>]

ConfoundsGood ==
    [columns |-> << sRot, sRotX, sCsf >>,
     rows |-> << << NaN, NaN, Val(1) >>, << Val(1), Val(2), Val(1) >>,
                 << Val(2), Val(2), Val(1) >>, << Val(3), Val(2), Val(1) >>,
                 << Val(4), NaN, Val(2) >>, << Val(5), Val(7), Val(3) >> >>]

ConfoundsOther ==
    [columns |-> << sGs >>,
     rows |-> << << Val(1) >>, << Val(2) >>, << Val(3) >>, << Val(4) >>,
                 << NaN >> >>]

Wild == << "*" >>

File(root, suffix, ext, name, readable, table) ==
    [suffix |-> suffix, task |-> sFinger, session |-> sTest, ext |-> ext,
     path |-> Append(root, suffix \o "." \o ext), name |-> name,
     readable |-> readable, table |-> table]

Images(root) ==
    << File(root, "bold", "nii.gz", << >>, TRUE, NoTable),
       File(root, "brainmask", "nii.gz", << >>, TRUE, NoTable) >>

\* valid: BIDSLayout(folder) builds; files: what the layout indexes, in order
Dataset(root) ==
    CASE root = dsGood ->
           [valid |-> TRUE,
            files |-> Images(root) \o
                << File(root, "events", "tsv", sEventsTsv, TRUE, EventsTable),
                   File(root, "confounds", "tsv", sConfoundsTsv, TRUE, ConfoundsGood) >>]
      [] root = dsOther ->
           [valid |-> TRUE,
            files |-> Images(root) \o
                << File(root, "events", "tsv", sEventsTsv, FALSE, NoTable),
                   File(root, "confounds", "tsv", sConfoundsTsv, TRUE, ConfoundsOther) >>]
      [] root = dsNoConf ->
           [valid |-> TRUE,
            files |-> Images(root) \o
                << File(root, "events", "tsv", sEventsTsv, TRUE, EventsTable) >>]
      [] root = dsCorrupt ->
           [valid |-> TRUE,
            files |-> Images(root) \o
                << File(root, "events", "tsv", sEventsTsv, TRUE, EventsTable),
                   File(root, "confounds", "tsv", sConfoundsTsv, FALSE, NoTable) >>]
      [] OTHER -> [valid |-> FALSE, files |-> << >>]

\* layout.get(suffix=..., task=..., session=..., extension=...)
Get(lay, suffix, task, session, exts) ==
    LET Match(f) == /\ f.suffix = suffix
                    /\ task = Wild \/ f.task = task
                    /\ session = Wild \/ f.session = session
                    /\ f.ext \in exts
    IN  SelectSeq(Dataset(lay.root).files, Match)

\* os.path.basename(folder)
Basename(path) == path[Len(path)]

\* texts that str(e) of a failure of the external libraries may carry: nothing
\* the except clause looks for, or the word "bold" (a failure of pd.read_csv
\* carries the name of the file read, which for the events file has "events")
ErrTexts == { << >>, sBold }

-----------------------------------------------------------------------------
(* The log. *)

\* the characters of a log line that the handlers search
LineChars(l) ==
    CASE l.kind = "Step 2" -> sStep2
      [] l.kind = "Step 3" -> sStep3
      [] l.kind = "Step 4" -> sStep4
      [] l.kind = "Error" -> l.exc.text
      [] OTHER -> << >>

\* tag in self.status.toPlainText()
InStatus(st, tag) == \E i \in 1..Len(st) : Contains(LineChars(st[i]), tag)

-----------------------------------------------------------------------------
(* Editing the form. *)

EditTasks ==
    /\ pc = "idle" /\ alive
    /\ \E t \in TaskPresets :
         /\ typed' = [typed EXCEPT !.tasks = t]
         /\ txt_tasks' = TaskText(t)
    /\ UNCHANGED << window, txt_session, txt_contrasts, pc, frame, alive, clicks >>

EditContrasts ==
    /\ pc = "idle" /\ alive
    /\ \E c \in ContrastPresets :
         /\ typed' = [typed EXCEPT !.contrasts = c]
         /\ txt_contrasts' = FieldText(c)
    /\ UNCHANGED << window, txt_tasks, txt_session, pc, frame, alive, clicks >>

\* the user picks an entry of the confound combo box
SelectConfound ==
    /\ pc = "idle" /\ alive
    /\ combo_enabled
    /\ \E i \in 1..Len(combo_items) : combo_index' = i
    /\ UNCHANGED << bids_dir, output_dir, layout, lbl_bids, lbl_output, txt_tasks,
                    txt_session, txt_contrasts, combo_items, combo_enabled, status,
                    pc, frame, dialogs, disk, alive, clicks, typed >>

-----------------------------------------------------------------------------
(* choose_bids *)

\* the outcome of the try block of choose_bids for a picked folder
LoadBids(folder) ==
    LET ds    == Dataset(folder)
        lay   == [root |-> folder]
        found == Get(lay, "confounds", Wild, Wild, {"tsv", "csv"})
    IN  IF ~ds.valid
        THEN [layout |-> layout, confounds_file |-> Unbound, loaded |-> FALSE,
              table |-> NoTable, exc |-> Exc("BIDSError", << >>)]
        ELSE IF found = << >>
        THEN [layout |-> lay, confounds_file |-> Unbound, loaded |-> FALSE,
              table |-> NoTable, exc |-> Exc("IndexError", << >>)]
        ELSE IF ~found[1].readable
        THEN [layout |-> lay, confounds_file |-> found[1].path, loaded |-> FALSE,
              table |-> NoTable, exc |-> Exc("ParserError", found[1].name)]
        ELSE [layout |-> lay, confounds_file |-> found[1].path, loaded |-> TRUE,
              table |-> found[1].table, exc |-> NoExc]

ChooseBids(folder) ==
    /\ pc = "idle" /\ alive /\ clicks < MaxClicks
    /\ clicks' = clicks + 1
    /\ IF folder = Cancelled
       THEN /\ frame' = [EmptyFrame EXCEPT !.handler = "choose_bids",
                                           !.outcome = "cancelled",
                                           !.mark = Len(status)]
            /\ pc' = "return"
            /\ UNCHANGED << bids_dir, lbl_bids, layout, combo_items, combo_index,
                            combo_enabled, status, alive >>
       ELSE LET r  == LoadBids(folder)
                s1 == log(status, Line("Step 1"))
            IN  /\ bids_dir' = folder
                /\ lbl_bids' = Basename(folder)
                /\ layout' = r.layout
                /\ IF r.loaded
                   THEN /\ combo_items' = r.table.columns
                        /\ combo_index' = IF r.table.columns = << >> THEN 0 ELSE 1
                        /\ combo_enabled' = TRUE
                        /\ status' = log(s1, Line("Loaded"))
                        /\ pc' = "return"
                        /\ alive' = TRUE
                        /\ frame' = [EmptyFrame EXCEPT
                                        !.handler = "choose_bids",
                                        !.outcome = "loaded",
                                        !.confounds_file = r.confounds_file,
                                        !.mark = Len(status)]
                   ELSE /\ UNCHANGED << combo_items, combo_index, combo_enabled >>
                        /\ IF r.confounds_file = Unbound
                           THEN \* the except clause reads confounds_file unbound
                                /\ status' = s1
                                /\ pc' = "escaped"
                                /\ alive' = FALSE
                                /\ frame' = [EmptyFrame EXCEPT
                                        !.handler = "choose_bids",
                                        !.outcome = "escaped",
                                        !.exc = Exc("UnboundLocalError", << >>),
                                        !.mark = Len(status)]
                           ELSE /\ status' = log(s1, ErrLine("Step 1 (Load BIDS)",
                                                            r.exc, r.confounds_file))
                                /\ pc' = "return"
                                /\ alive' = TRUE
                                /\ frame' = [EmptyFrame EXCEPT
                                        !.handler = "choose_bids",
                                        !.outcome = "error",
                                        !.confounds_file = r.confounds_file,
                                        !.exc = r.exc,
                                        !.mark = Len(status)]
    /\ UNCHANGED << output_dir, lbl_output, txt_tasks, txt_session, txt_contrasts,
                    dialogs, disk, typed >>

-----------------------------------------------------------------------------
(* choose_output *)

ChooseOutput(folder) ==
    /\ pc = "idle" /\ alive /\ clicks < MaxClicks
    /\ clicks' = clicks + 1
    /\ IF folder = Cancelled
       THEN UNCHANGED << output_dir, lbl_output >>
       ELSE /\ output_dir' = folder
            /\ lbl_output' = Basename(folder)
    /\ UNCHANGED << bids_dir, layout, lbl_bids, txt_tasks, txt_session,
                    txt_contrasts, combo_items, combo_index, combo_enabled, status,
                    pc, frame, dialogs, disk, alive, typed >>

-----------------------------------------------------------------------------
(* run_second_level *)

RunSecondLevel ==
    /\ pc = "idle" /\ alive /\ clicks < MaxClicks
    /\ clicks' = clicks + 1
    /\ status' = log(status, Line("Second"))
    /\ UNCHANGED << bids_dir, output_dir, layout, lbl_bids, lbl_output, txt_tasks,
                    txt_session, txt_contrasts, combo_items, combo_index,
                    combo_enabled, pc, frame, dialogs, disk, alive, typed >>

-----------------------------------------------------------------------------
(* run_first_level, statement by statement.  While it runs the UI thread is *)
(* inside the handler (pc # "idle") and no other handler starts.            *)

Trace(f, what) == [f EXCEPT !.trace = Append(@, what)]
Fail(f, e) == [f EXCEPT !.exc = e]

\* RunFirstLevel with the guard 'not bids_dir and not output_dir'
RunFirstLevel_BothEmpty ==
    /\ pc = "idle" /\ alive /\ clicks < MaxClicks
    /\ clicks' = clicks + 1
    /\ IF bids_dir = << >> /\ output_dir = << >>
       THEN /\ dialogs' = dialogs + 1
            /\ frame' = [EmptyFrame EXCEPT !.handler = "run_first_level",
                                           !.outcome = "warned",
                                           !.mark = Len(status)]
            /\ pc' = "return"
            /\ UNCHANGED status
       ELSE /\ status' = log(status, Line("Step 2"))
            /\ frame' = [EmptyFrame EXCEPT !.handler = "run_first_level",
                                           !.mark = Len(status)]
            /\ pc' = "form"
            /\ UNCHANGED dialogs
    /\ UNCHANGED << bids_dir, output_dir, layout, lbl_bids, lbl_output, txt_tasks,
                    txt_session, txt_contrasts, combo_items, combo_index,
                    combo_enabled, disk, alive, typed >>

\* lines 124-128: the guard, and the first log line
RunFirstLevel ==
    /\ pc = "idle" /\ alive /\ clicks < MaxClicks
    /\ clicks' = clicks + 1
    /\ IF bids_dir = << >> \/ output_dir = << >>
       THEN /\ dialogs' = dialogs + 1
            /\ frame' = [EmptyFrame EXCEPT !.handler = "run_first_level",
                                           !.outcome = "warned",
                                           !.mark = Len(status)]
            /\ pc' = "return"
            /\ UNCHANGED status
       ELSE /\ status' = log(status, Line("Step 2"))
            /\ frame' = [EmptyFrame EXCEPT !.handler = "run_first_level",
                                           !.mark = Len(status)]
            /\ pc' = "form"
            /\ UNCHANGED dialogs
    /\ UNCHANGED << bids_dir, output_dir, layout, lbl_bids, lbl_output, txt_tasks,
                    txt_session, txt_contrasts, combo_items, combo_index,
                    combo_enabled, disk, alive, typed >>

\* self.combo_confounds.currentText()
currentText == IF combo_index = 0 THEN << >> ELSE combo_items[combo_index]

\* line 133: the items whose text is found in the current text
ConfoundCols ==
    LET Picked(c) == Contains(currentText, c)
    IN  SelectSeq(combo_items, Picked)

\* line 130
TaskList(text) ==
    LET parts == Split(text, ",")
    IN  [i \in 1..Len(parts) |-> Strip(parts[i])]

\* lines 130-133: the form is read
ReadForm ==
    /\ pc = "form"
    /\ LET r == parse_contrasts(txt_contrasts)
           f == [Trace(frame, "form") EXCEPT !.tasks = TaskList(txt_tasks),
                                             !.session = Strip(txt_session)]
       IN  IF r.raised
           THEN /\ frame' = Fail(f, r.exc)
                /\ pc' = "except"
           ELSE /\ frame' = [f EXCEPT !.contrasts = r.value,
                                      !.confound_cols = ConfoundCols]
                /\ pc' = "query"
    /\ UNCHANGED << window, txt_tasks, txt_session, txt_contrasts, alive, clicks,
                    typed >>

\* lines 135-138: the four files, bound one after the other until a query fails
QueryFiles(f) ==
    LET task == f.tasks[1]
        bold == Get(layout, "bold", task, f.session, {"nii.gz"})
        mask == Get(layout, "brainmask", task, f.session, {"nii.gz"})
        evts == Get(layout, "events", task, f.session, {"tsv"})
        conf == Get(layout, "confounds", Wild, Wild, {"tsv"})
        miss == Exc("IndexError", << >>)
    IN  IF layout = NoLayout THEN Fail(f, Exc("AttributeError", << >>))
        ELSE IF bold = << >> THEN Fail(f, miss)
        ELSE IF mask = << >>
        THEN Fail([f EXCEPT !.bold_file = bold[1].path], miss)
        ELSE IF evts = << >>
        THEN Fail([f EXCEPT !.bold_file = bold[1].path,
                            !.mask_file = mask[1].path], miss)
        ELSE IF conf = << >>
        THEN Fail([f EXCEPT !.bold_file = bold[1].path,
                            !.mask_file = mask[1].path,
                            !.events_file = evts[1].path], miss)
        ELSE [f EXCEPT !.bold_file = bold[1].path,
                       !.mask_file = mask[1].path,
                       !.events_file = evts[1].path,
                       !.confounds_file = conf[1].path]

QueryLayout ==
    /\ pc = "query"
    /\ frame' = QueryFiles(frame)
    /\ pc' = IF frame'.exc # NoExc THEN "except" ELSE "tables"
    /\ UNCHANGED << window, txt_tasks, txt_session, txt_contrasts, alive, clicks,
                    typed >>

\* the file of the layout at a path
FileAt(path) ==
    LET fs == Dataset(layout.root).files
    IN  fs[CHOOSE i \in 1..Len(fs) : fs[i].path = path]

RowsOf(events, t) ==
    LET Is(r) == r.trial_type = t
    IN  SelectSeq(events.rows, Is)

\* Onsets without the shift by -10
Onsets_Unshifted(events, tasks) ==
    [i \in 1..Len(tasks) |->
        LET rs == RowsOf(events, tasks[i])
        IN  [j \in 1..Len(rs) |-> rs[j].onset]]

\* line 144
Onsets(events, tasks) ==
    [i \in 1..Len(tasks) |->
        LET rs == RowsOf(events, tasks[i])
        IN  [j \in 1..Len(rs) |-> rs[j].onset - 10]]

\* line 145
Durations(events, tasks) ==
    [i \in 1..Len(tasks) |->
        LET rs == RowsOf(events, tasks[i])
        IN  [j \in 1..Len(rs) |-> rs[j].duration]]

ColumnIndex(table, c) ==
    IF \E i \in 1..Len(table.columns) : table.columns[i] = c
    THEN CHOOSE i \in 1..Len(table.columns) : table.columns[i] = c
    ELSE 0

\* confounds[c].fillna(0)[4:]
Regressor(table, c) ==
    LET k    == ColumnIndex(table, c)
        col  == [j \in 1..Len(table.rows) |->
                    IF table.rows[j][k].nan THEN 0 ELSE table.rows[j][k].v]
    IN  Tail_(col, 5)

\* lines 142-148
Bunch(tasks, events, confounds, cols) ==
    [conditions |-> tasks,
     onsets |-> Onsets(events, tasks),
     durations |-> Durations(events, tasks),
     regressors |-> [i \in 1..Len(cols) |-> Regressor(confounds, cols[i])],
     regressor_names |-> cols]

\* lines 140-148: the two tables are read and the subject info is built
ReadTables ==
    /\ pc = "tables"
    /\ LET ev == FileAt(frame.events_file)
           cf == FileAt(frame.confounds_file)
           f  == Trace(frame, "inputs")
       IN  IF ~ev.readable
           THEN frame' = Fail(f, Exc("ParserError", ev.name))
           ELSE IF ~cf.readable
           THEN frame' = Fail([f EXCEPT !.events = ev.table],
                              Exc("ParserError", cf.name))
           ELSE IF \E i \in 1..Len(frame.confound_cols) :
                       ColumnIndex(cf.table, frame.confound_cols[i]) = 0
           THEN frame' = Fail([f EXCEPT !.events = ev.table,
                                        !.confounds = cf.table],
                              Exc("KeyError",
                                  LET i == CHOOSE i \in 1..Len(frame.confound_cols) :
                                             ColumnIndex(cf.table,
                                                 frame.confound_cols[i]) = 0
                                  IN  frame.confound_cols[i]))
           ELSE frame' = [f EXCEPT !.events = ev.table,
                                   !.confounds = cf.table,
                                   !.info = << Bunch(frame.tasks, ev.table, cf.table,
                                                     frame.confound_cols) >>]
    /\ pc' = IF frame'.exc # NoExc THEN "except" ELSE "setup"
    /\ UNCHANGED << window, txt_tasks, txt_session, txt_contrasts, alive, clicks,
                    typed >>

\* lines 150-155: the workflow and its inputs
Workflow(f) ==
    [name |-> "Feat1stLevel", base_dir |-> output_dir, in_func |-> f.bold_file,
     brain_mask |-> f.mask_file, subject_info |-> f.info,
     contrasts |-> f.contrasts]

\* SetupWorkflow with the workflow run before 'Step 3' is logged
SetupWorkflow_RunBeforeStep3 ==
    /\ pc = "setup"
    /\ \/ /\ frame' = [frame EXCEPT !.wf = << Workflow(frame) >>]
          /\ pc' = "run"
          /\ UNCHANGED status
       \/ \E t \in ErrTexts :
            /\ frame' = Fail(frame, Exc("LibraryError", t))
            /\ pc' = "except"
            /\ UNCHANGED status
    /\ UNCHANGED << bids_dir, output_dir, layout, lbl_bids, lbl_output, txt_tasks,
                    txt_session, txt_contrasts, combo_items, combo_index,
                    combo_enabled, dialogs, disk, alive, clicks, typed >>

\* lines 150-157: the workflow is set up and 'Step 3' is logged, or the library
\* raises.  The nodes of the workflow are not part of the source (line 107), so
\* whether the assignments of lines 152-155 succeed is left open.
SetupWorkflow ==
    /\ pc = "setup"
    /\ \/ /\ frame' = [frame EXCEPT !.wf = << Workflow(frame) >>]
          /\ status' = log(status, Line("Step 3"))
          /\ pc' = "run"
       \/ \E t \in ErrTexts :
            /\ frame' = Fail(frame, Exc("LibraryError", t))
            /\ pc' = "except"
            /\ UNCHANGED status
    /\ UNCHANGED << bids_dir, output_dir, layout, lbl_bids, lbl_output, txt_tasks,
                    txt_session, txt_contrasts, combo_items, combo_index,
                    combo_enabled, dialogs, disk, alive, clicks, typed >>

\* lines 158-160: feat_wf.run() returns or raises; Step 4 is logged
RunWorkflow ==
    /\ pc = "run"
    /\ \/ /\ frame' = Trace(frame, "run")
          /\ status' = log(status, Line("Step 4"))
          /\ pc' = "load"
       \/ \E t \in ErrTexts :
            /\ frame' = Fail(Trace(frame, "run"), Exc("LibraryError", t))
            /\ pc' = "except"
            /\ UNCHANGED status
    /\ UNCHANGED << bids_dir, output_dir, layout, lbl_bids, lbl_output, txt_tasks,
                    txt_session, txt_contrasts, combo_items, combo_index,
                    combo_enabled, dialogs, disk, alive, clicks, typed >>

\* the z-statistic maps of the first group of a result with n maps
ZStats(n) == [j \in 1..n |-> [zmap |-> j]]

\* lines 161-162: the result file is unpickled, or that fails
LoadResults ==
    /\ pc = "load"
    /\ \/ \E n \in 0..MaxMaps :
            /\ frame' = [Trace(frame, "load") EXCEPT !.results = ZStats(n),
                                                     !.i = 0]
            /\ pc' = "write"
       \/ \E t \in ErrTexts :
            /\ frame' = Fail(Trace(frame, "load"), Exc("LibraryError", t))
            /\ pc' = "except"
    /\ UNCHANGED << window, txt_tasks, txt_session, txt_contrasts, alive, clicks,
                    typed >>

\* Png with the files numbered from 1
Png_FromOne(i, t_map) == [dir |-> output_dir, index |-> i + 1, zmap |-> t_map.zmap]

\* the file written by plot.savefig for the i-th map (i counts from 0)
Png(i, t_map) == [dir |-> output_dir, index |-> i, zmap |-> t_map.zmap]

\* lines 162-165: one turn of the loop: the map is plotted and saved, or that fails
WritePng ==
    /\ pc = "write"
    /\ frame.i < Len(frame.results)
    /\ \/ LET png == Png(frame.i, frame.results[frame.i + 1])
          IN  /\ disk' = { f \in disk : ~(f.dir = png.dir /\ f.index = png.index) }
                             \cup { png }
              /\ frame' = [Trace(frame, "write") EXCEPT !.written = Append(@, png),
                                                        !.i = @ + 1]
              /\ pc' = "write"
       \/ \E t \in ErrTexts :
            /\ frame' = Fail(Trace(frame, "write"), Exc("LibraryError", t))
            /\ pc' = "except"
            /\ UNCHANGED disk
    /\ UNCHANGED << bids_dir, output_dir, layout, lbl_bids, lbl_output, txt_tasks,
                    txt_session, txt_contrasts, combo_items, combo_index,
                    combo_enabled, status, dialogs, alive, clicks, typed >>

\* line 166: the loop is over
Complete ==
    /\ pc = "write"
    /\ frame.i = Len(frame.results)
    /\ status' = log(status, Line("Completed"))
    /\ frame' = [frame EXCEPT !.outcome = "completed"]
    /\ pc' = "return"
    /\ UNCHANGED << bids_dir, output_dir, layout, lbl_bids, lbl_output, txt_tasks,
                    txt_session, txt_contrasts, combo_items, combo_index,
                    combo_enabled, dialogs, disk, alive, clicks, typed >>

\* lines 169-179: the step named in the error line
ErrorStep(st) ==
    IF InStatus(st, sStep2) THEN "Setup Workflow"
    ELSE IF InStatus(st, sStep3) THEN "Run Analysis"
    ELSE IF InStatus(st, sStep4) THEN "Save Results"
    ELSE "Unknown"

\* lines 170-179: the file named in the error line; Unbound when the local
\* variable read has no value yet
ErrorFile(st, f) ==
    IF InStatus(st, sStep2)
    THEN IF Contains(f.exc.text, sBold) THEN f.bold_file
         ELSE IF Contains(f.exc.text, sEvents) THEN f.events_file
         ELSE f.confounds_file
    ELSE IF InStatus(st, sStep3) THEN Append(output_dir, "Feat1stLevel")
    ELSE IF InStatus(st, sStep4) THEN Append(output_dir, "zstat_*.png")
    ELSE << "Unknown" >>

\* lines 168-180: the except clause
Except ==
    /\ pc = "except"
    /\ IF ErrorFile(status, frame) = Unbound
       THEN /\ frame' = [frame EXCEPT !.outcome = "escaped",
                                      !.exc = Exc("UnboundLocalError", << >>)]
            /\ pc' = "escaped"
            /\ alive' = FALSE
            /\ UNCHANGED status
       ELSE /\ status' = log(status, ErrLine(ErrorStep(status), frame.exc,
                                             ErrorFile(status, frame)))
            /\ frame' = [frame EXCEPT !.outcome = "error"]
            /\ pc' = "return"
            /\ UNCHANGED alive
    /\ UNCHANGED << bids_dir, output_dir, layout, lbl_bids, lbl_output, txt_tasks,
                    txt_session, txt_contrasts, combo_items, combo_index,
                    combo_enabled, dialogs, disk, clicks, typed >>

\* the handler returns to the event loop; its local variables are gone
Return ==
    /\ pc = "return"
    /\ pc' = "idle"
    /\ frame' = EmptyFrame
    /\ UNCHANGED << window, txt_tasks, txt_session, txt_contrasts, alive, clicks,
                    typed >>

-----------------------------------------------------------------------------
(* The window: the event loop runs one handler at a time.  An exception     *)
(* that leaves a handler reaches the event loop, which ends the process     *)
(* (PyQt6 aborts on an unhandled exception of a slot; no excepthook is      *)
(* installed): pc = "escaped", alive = FALSE, and nothing runs after it.    *)

Next ==
    \/ EditTasks
    \/ EditContrasts
    \/ SelectConfound
    \/ \E folder \in BidsFolders \cup { Cancelled } : ChooseBids(folder)
    \/ \E folder \in OutFolders \cup { Cancelled } : ChooseOutput(folder)
    \/ RunSecondLevel
    \/ RunFirstLevel
    \/ ReadForm
    \/ QueryLayout
    \/ ReadTables
    \/ SetupWorkflow
    \/ RunWorkflow
    \/ LoadResults
    \/ WritePng
    \/ Complete
    \/ Except
    \/ Return

Spec == Init /\ [][Next]_vars

-----------------------------------------------------------------------------
(* parse_contrasts on its own: the user types contrast lines into the      *)
(* field, and parse_contrasts is called on what the field holds.           *)

TypeContrast ==
    /\ pc = "idle"
    /\ Len(typed.contrasts) < MaxLines
    /\ \E n \in NameToks, k \in 1..MaxPairs :
         /\ PairsTyped(typed.contrasts) + k <= MaxPairs
         /\ \E ps \in [1..k -> CondToks \X WeightToks] :
              LET line == ContrastLine(n, [i \in 1..k |-> Pair(ps[i][1], ps[i][2])])
              IN  /\ typed' = [typed EXCEPT !.contrasts = Append(@, line)]
                  /\ txt_contrasts' = FieldText(typed'.contrasts)
    /\ UNCHANGED << window, txt_tasks, txt_session, pc, frame, alive, clicks >>

TypeBlank ==
    /\ pc = "idle"
    /\ Len(typed.contrasts) < MaxLines
    /\ \E b \in BlankTexts :
         /\ typed' = [typed EXCEPT !.contrasts = Append(@, BlankLine(b))]
         /\ txt_contrasts' = FieldText(typed'.contrasts)
    /\ UNCHANGED << window, txt_tasks, txt_session, pc, frame, alive, clicks >>

\* a call of self.parse_contrasts(): the frame keeps what it returned or raised
CallParseContrasts ==
    /\ pc = "idle"
    /\ LET r == parse_contrasts(txt_contrasts)
       IN  frame' = [EmptyFrame EXCEPT !.handler = "parse_contrasts",
                                       !.outcome = IF r.raised THEN "raised"
                                                   ELSE "returned",
                                       !.contrasts = r.value,
                                       !.exc = r.exc]
    /\ pc' = "called"
    /\ UNCHANGED << window, txt_tasks, txt_session, txt_contrasts, alive, clicks,
                    typed >>

ParseInit ==
    /\ bids_dir = << >>
    /\ output_dir = << >>
    /\ layout = NoLayout
    /\ lbl_bids = NoFolderSelected
    /\ lbl_output = NoFolderSelected
    /\ txt_tasks = TaskText(DefaultTasks)
    /\ txt_session = sTest
    /\ txt_contrasts = << >>
    /\ combo_items = << >>
    /\ combo_index = 0
    /\ combo_enabled = FALSE
    /\ status = << Line("Ready") >>
    /\ pc = "idle"
    /\ frame = EmptyFrame
    /\ dialogs = 0
    /\ disk = {}
    /\ alive = TRUE
    /\ clicks = 0
    /\ typed = [tasks |-> DefaultTasks, contrasts |-> << >>]

ParseNext == TypeContrast \/ TypeBlank \/ CallParseContrasts

SpecParse == ParseInit /\ [][ParseNext]_vars

-----------------------------------------------------------------------------
(* Helpers of the properties. *)

\* the lines logged since the running handler was entered
ClickLines == SubSeq(status, frame.mark + 1, Len(status))
ClickKinds == [i \in 1..Len(ClickLines) |-> ClickLines[i].kind]

InSeq(x, s) == \E i \in 1..Len(s) : s[i] = x
Count(x, s) == Cardinality({ i \in 1..Len(s) : s[i] = x })
IsPrefix(s, t) == Len(s) <= Len(t) /\ SubSeq(t, 1, Len(s)) = s

InRunFirstLevel == frame.handler = "run_first_level"
Ended == pc \in { "return", "escaped" }

\* the fields hold what was typed
FieldsAsTyped ==
    /\ txt_tasks = TaskText(typed.tasks)
    /\ txt_contrasts = FieldText(typed.contrasts)

\* the typed lines that are not blank
RECURSIVE NonBlank(_)
NonBlank(lines) ==
    IF lines = << >> THEN << >>
    ELSE IF Head(lines).kind = "blank" THEN NonBlank(Tail(lines))
    ELSE << Head(lines) >> \o NonBlank(Tail(lines))

\* the positions of a line's pairs whose condition name did not occur before
FirstAt(line) ==
    { i \in 1..Len(line.conds) : \A j \in 1..(i - 1) : line.conds[j] # line.conds[i] }

\* the position of the last pair of a line that names condition c
LastOf(line, c) ==
    CHOOSE i \in 1..Len(line.conds) :
        /\ line.conds[i] = c
        /\ \A j \in (i + 1)..Len(line.conds) : line.conds[j] # c

\* the k-th smallest element of a set of numbers
RECURSIVE Kth(_, _)
Kth(S, k) ==
    LET lo == CHOOSE x \in S : \A y \in S : x <= y
    IN  IF k = 1 THEN lo ELSE Kth(S \ { lo }, k - 1)

\* the record of a typed line, pair by pair as typed
RecordAsTyped(line) ==
    [name |-> line.name, kind |-> "T", conds |-> line.conds, weights |-> line.weights]

\* the record of a typed line with each condition once, at its first place,
\* with the last weight typed for it
RecordByName(line) ==
    LET F == FirstAt(line)
        n == Cardinality(F)
    IN  [name |-> line.name, kind |-> "T",
         conds |-> [k \in 1..n |-> line.conds[Kth(F, k)]],
         weights |-> [k \in 1..n |-> line.weights[LastOf(line, line.conds[Kth(F, k)])]]]

ParseCalled == frame.handler = "parse_contrasts" /\ pc = "called"

-----------------------------------------------------------------------------
(* C1 *)

\* C1 as stated: for a text whose non-blank lines all have the form
\* 'Name: c1=w1, ..., ck=wk', parse_contrasts returns one record per non-blank
\* line, in line order: the trimmed name, "T", the k condition names trimmed
\* and the k weights as numbers, the i-th weight being that of the i-th name.
C1_RecordPerPair ==
    ParseCalled =>
        /\ frame.outcome = "returned"
        /\ LET ls == NonBlank(typed.contrasts)
           IN  frame.contrasts = [i \in 1..Len(ls) |-> RecordAsTyped(ls[i])]

\* C1 amended: parse_contrasts returns one record per non-blank line, in line
\* order: the trimmed name, "T", the distinct trimmed condition names in order
\* of first occurrence and, for each, the last weight the line gives it (so
\* for a line whose condition names are distinct, c1..ck and w1..wk); blank
\* and whitespace-only lines give no record.
C1_RecordPerName ==
    ParseCalled =>
        /\ FieldsAsTyped
        /\ frame.outcome = "returned"
        /\ LET ls == NonBlank(typed.contrasts)
           IN  frame.contrasts = [i \in 1..Len(ls) |-> RecordByName(ls[i])]

\* parse_contrasts returned one record for a text with a blank line and a
\* contrast line that names one condition twice, with different weights
C1_Witness ==
    /\ ParseCalled
    /\ Len(frame.contrasts) = 1
    /\ \E i \in 1..Len(typed.contrasts) : typed.contrasts[i].kind = "blank"
    /\ \E i \in 1..Len(typed.contrasts) :
         /\ Len(typed.contrasts[i].conds) = 2
         /\ typed.contrasts[i].conds[1] = typed.contrasts[i].conds[2]
         /\ typed.contrasts[i].weights[1] # typed.contrasts[i].weights[2]
         /\ frame.contrasts[1].conds = << typed.contrasts[i].conds[1] >>
         /\ frame.contrasts[1].weights = << typed.contrasts[i].weights[2] >>

-----------------------------------------------------------------------------
(* C2 *)

\* C2: once both folders are selected, every failure raised in run_first_level
\* is caught inside the handler and gives exactly one 'Error in ...' line; no
\* exception leaves the handler.
C2_EveryFailureLogged ==
    (InRunFirstLevel /\ Ended /\ frame.exc # NoExc) =>
        /\ pc = "return"
        /\ Count("Error", ClickKinds) = 1

-----------------------------------------------------------------------------
(* C3 *)

\* C3: when a folder is picked, every failure while choose_bids loads it is
\* caught inside the handler and gives an 'Error in Step 1 (Load BIDS)' line;
\* no exception leaves the handler.
C3_LoadFailureLogged ==
    (frame.handler = "choose_bids" /\ Ended /\ frame.exc # NoExc) =>
        /\ pc = "return"
        /\ status[Len(status)].kind = "Error"
        /\ status[Len(status)].step = "Step 1 (Load BIDS)"

-----------------------------------------------------------------------------
(* C4 *)

\* the result file was loaded by the running handler
ResultsLoaded ==
    /\ InRunFirstLevel
    /\ InSeq("load", frame.trace)
    /\ frame.exc = NoExc \/ frame.trace[Len(frame.trace)] = "write"

\* zstat_0.png .. zstat_(k-1).png of the output folder, the i-th from the i-th map
FirstPngs(k) ==
    [i \in 1..k |-> [dir |-> output_dir, index |-> i - 1,
                     zmap |-> frame.results[i].zmap]]

-----------------------------------------------------------------------------
(* C5 *)

ExpectedPhase(i) ==
    CASE i = 1 -> "form" [] i = 2 -> "inputs" [] i = 3 -> "run" [] i = 4 -> "load"
      [] OTHER -> "write"

StepLines == << "Step 2", "Step 3", "Step 4", "Completed" >>

C5_Order ==
    InRunFirstLevel =>
        /\ \A i \in 1..Len(frame.trace) : frame.trace[i] = ExpectedPhase(i)
        /\ Count("run", frame.trace) <= 1
        /\ InSeq("run", frame.trace) => IsPrefix(<< "Step 2", "Step 3" >>, ClickKinds)
        /\ InSeq("load", frame.trace) =>
                IsPrefix(<< "Step 2", "Step 3", "Step 4" >>, ClickKinds)
        /\ \/ IsPrefix(ClickKinds, StepLines)
           \/ /\ ClickKinds # << >>
              /\ ClickKinds[Len(ClickKinds)] = "Error"
              /\ IsPrefix(SubSeq(ClickKinds, 1, Len(ClickKinds) - 1),
                          << "Step 2", "Step 3", "Step 4" >>)

Entered(what) ==
    /\ frame'.trace # frame.trace
    /\ frame'.trace # << >>
    /\ frame'.trace[Len(frame'.trace)] = what

C5_Step ==
    /\ Entered("run") =>
            /\ IsPrefix(<< "Step 2", "Step 3" >>, ClickKinds)
            /\ ~InSeq("run", frame.trace)
    /\ Entered("load") =>
            /\ InSeq("run", frame.trace)
            /\ frame.exc = NoExc
            /\ ClickKinds = << "Step 2", "Step 3", "Step 4" >>
    /\ Entered("write") => InSeq("load", frame.trace)
    /\ pc # "idle" =>
            /\ UNCHANGED << bids_dir, output_dir, layout, lbl_bids, lbl_output,
                            txt_tasks, txt_session, txt_contrasts, combo_items,
                            combo_index, combo_enabled, clicks, dialogs >>
            /\ IsPrefix(status, status')
            /\ frame'.handler \in { frame.handler, "none" }

\* C5: a click of 'Run First-Level Analysis' goes through read form, build
\* inputs, workflow run, result load, image writing in that order: the workflow
\* is run at most once and only after 'Step 2' and 'Step 3' were logged, the
\* result file is read only after the run returned, the click's log lines come
\* in the order Step 2, Step 3, Step 4, completed, and no other handler acts
\* between these steps.
C5_PhasesInOrder == [](C5_Order) /\ [][C5_Step]_vars

\* a click that ran the workflow, loaded the result, wrote an image and completed
C5_Witness ==
    /\ InRunFirstLevel /\ pc = "return"
    /\ ClickKinds = StepLines
    /\ frame.trace = << "form", "inputs", "run", "load", "write" >>

-----------------------------------------------------------------------------
(* C6 *)

RECURSIVE ShiftedOnsets(_, _)
\* the onsets, less 10, of the rows of one trial type, in row order
ShiftedOnsets(rows, t) ==
    IF rows = << >> THEN << >>
    ELSE (IF Head(rows).trial_type = t THEN << Head(rows).onset - 10 >> ELSE << >>)
         \o ShiftedOnsets(Tail(rows), t)

RECURSIVE DurationsOf(_, _)
DurationsOf(rows, t) ==
    IF rows = << >> THEN << >>
    ELSE (IF Head(rows).trial_type = t THEN << Head(rows).duration >> ELSE << >>)
         \o DurationsOf(Tail(rows), t)

\* the event rows of the dataset the layout was built from
EventRows ==
    LET fs == Dataset(layout.root).files
    IN  fs[CHOOSE i \in 1..Len(fs) : fs[i].suffix = "events"].table.rows

\* C6: the pipeline inputs built by run_first_level: the conditions are the
\* comma-separated task names, trimmed, in field order; onsets and durations
\* hold one list per condition, from the event rows of that trial type, every
\* onset less 10; the contrasts are the result of parse_contrasts; the base
\* directory is the output folder; regressors holds one list per regressor
\* name, in the same order.
C6_FormToInputs ==
    (InRunFirstLevel /\ frame.wf # << >>) =>
        LET wf   == frame.wf[1]
            info == wf.subject_info[1]
            n    == Len(typed.tasks)
            ls   == NonBlank(typed.contrasts)
        IN  /\ FieldsAsTyped
            /\ Len(wf.subject_info) = 1
            /\ info.conditions = [i \in 1..n |-> typed.tasks[i].val]
            /\ info.onsets = [i \in 1..n |-> ShiftedOnsets(EventRows, typed.tasks[i].val)]
            /\ info.durations = [i \in 1..n |-> DurationsOf(EventRows, typed.tasks[i].val)]
            /\ wf.contrasts = [i \in 1..Len(ls) |-> RecordByName(ls[i])]
            /\ wf.base_dir = output_dir
            /\ Len(info.regressors) = Len(info.regressor_names)
            /\ info.regressor_names = frame.confound_cols
            /\ \A i \in 1..Len(info.regressors) :
                 /\ \E k \in 1..Len(combo_items) : combo_items[k] = info.regressor_names[i]
                 /\ Len(info.regressors[i]) = Len(frame.confounds.rows) - 4

\* a workflow was set up from a task field with padded names and two contrasts,
\* with a condition that has event rows and a regressor
C6_Witness ==
    /\ InRunFirstLevel /\ frame.wf # << >>
    /\ typed.tasks # DefaultTasks
    /\ Len(frame.wf[1].subject_info[1].conditions) = 3
    /\ Len(frame.wf[1].subject_info[1].onsets[1]) = 2
    /\ Len(frame.wf[1].contrasts) = 2
    /\ Len(frame.wf[1].subject_info[1].regressors) >= 1

-----------------------------------------------------------------------------
(* C7 *)

FirstLevelClicked == pc = "idle" /\ frame'.handler = "run_first_level"

C7_Step ==
    (FirstLevelClicked /\ (bids_dir = << >> \/ output_dir = << >>)) =>
        /\ dialogs' = dialogs + 1
        /\ pc' = "return"
        /\ frame'.outcome = "warned"
        /\ frame'.trace = << >> /\ frame'.wf = << >> /\ frame'.contrasts = << >>
        /\ UNCHANGED << status, disk, bids_dir, output_dir, layout, lbl_bids,
                        lbl_output, combo_items, combo_index, combo_enabled,
                        txt_tasks, txt_session, txt_contrasts, alive >>

\* C7: run_first_level clicked while bids_dir or output_dir is empty only shows
\* the warning: nothing is logged, the form is not parsed, the workflow is
\* neither built nor run, no file is written, and bids_dir, output_dir and
\* layout are unchanged.
C7_GuardOnlyWarns == [][C7_Step]_vars

\* the warning was shown with a BIDS folder selected and no output folder
C7_Witness ==
    /\ InRunFirstLevel /\ pc = "return" /\ frame.outcome = "warned"
    /\ bids_dir # << >> /\ output_dir = << >>
    /\ dialogs = 1

-----------------------------------------------------------------------------
(* C8 *)

\* the phase in which the running handler failed, from the lines it logged
FailedPhase ==
    IF InSeq("Step 4", ClickKinds) THEN "Save Results"
    ELSE IF InSeq("Step 3", ClickKinds) THEN "Run Analysis"
    ELSE "Setup Workflow"

\* C8: the error line of run_first_level names the phase of the failure, for
\* any earlier clicks: 'Setup Workflow' before Step 3, 'Run Analysis' with file
\* <output>/Feat1stLevel after Step 3, 'Save Results' with file
\* <output>/zstat_*.png after Step 4.
C8_ErrorNamesPhase ==
    (InRunFirstLevel /\ pc = "return" /\ frame.outcome = "error") =>
        LET l == status[Len(status)]
        IN  /\ l.kind = "Error"
            /\ l.step = FailedPhase
            /\ FailedPhase = "Run Analysis" => l.file = Append(output_dir, "Feat1stLevel")
            /\ FailedPhase = "Save Results" => l.file = Append(output_dir, "zstat_*.png")

-----------------------------------------------------------------------------
(* C9 *)

\* C9: the confound regressors of run_first_level are exactly the column
\* selected in the combo box, whatever the column names, and none when no
\* columns were loaded.
C9_SelectedColumnOnly ==
    (InRunFirstLevel /\ InSeq("form", frame.trace) /\ pc = "query") =>
        frame.confound_cols =
            IF combo_index = 0 THEN << >> ELSE << combo_items[combo_index] >>

-----------------------------------------------------------------------------
(* C10 *)

\* the columns of the confounds file of the dataset under a folder
ColumnsUnder(folder) ==
    LET fs   == Dataset(folder).files
        conf == { i \in 1..Len(fs) : fs[i].suffix = "confounds" }
    IN  IF conf = {} THEN << >>
        ELSE fs[CHOOSE i \in conf : \A j \in conf : i <= j].table.columns

\* C10: after any sequence of clicks, whenever bids_dir is non-empty, layout is
\* the layout built from that bids_dir (never None, never that of a folder
\* chosen before) and the combo box lists the columns of that dataset's
\* confounds file.
C10_DatasetConsistent ==
    bids_dir # << >> =>
        /\ layout = [root |-> bids_dir]
        /\ combo_items = ColumnsUnder(bids_dir)

====
